---- MODULE Spec2Model ----
(***************************************************************************)
(* Model of gagliardetto/gh-client (src/github.go): the retrying request   *)
(* closure shared by every operation, the getters, the paginated list      *)
(* operations, ListCommits with its age cut-off, and the exhaustive        *)
(* star-bounded search ListAllReposByLanguage.                             *)
(*                                                                         *)
(* Specifications:                                                         *)
(*   Spec        the non-search operations (retry budget 5)                *)
(*   SpecSearch  ListAllReposByLanguage (retry budget 9999)                *)
(*   SpecAll     both together                                             *)
(*   SpecWalk    RepoExplorationRequest.WalkFiles                          *)
(*   SpecShadow  isShadowMember                                            *)
(*   SpecEntry   the operations that check their required parameters     *)
(*   SpecObserver  the non-search operations of both variants, with and    *)
(*               without a response observer                               *)
(*   SpecLegacy  the legacy search ListReposOnlyBylanguage                 *)
(*   SpecScan    FindShadowMembersByContributions                          *)
(*   SpecOwner   IsOwnerAnOrg and IsOwnerAUser                             *)
(*   SpecEvery   the getters, the list operations and the tree walk      *)
(*   SpecTwo     two invocations of ListAllReposByLanguage, interleaved    *)
(***************************************************************************)
EXTENDS Integers, Sequences, FiniteSets, TLC

VARIABLES
    op,              \* the operation being executed
    pages,           \* list endpoint: the pages it serves, in order
    maxAge,          \* ListCommits: the maxAge argument
    dataset,         \* search endpoint: star count of every matching repo
    minStars,        \* ListAllReposByLanguageOpts.MinStars
    limit,           \* ListAllReposByLanguageOpts.Limit
    pc,              \* "retry": inside RetryExponentialBackoff; "after": it
                     \* returned; "done": the operation returned
    optPage,         \* opt.Page, the cursor (0: not set)
    allRepos,        \* the accumulated result (allRepos, allPRs, allCommits..)
    resp,            \* the closure's captured resp (NoResp: nil)
    items,           \* the closure's captured page (repos, commits, ...)
    errs,            \* errors collected by RetryExponentialBackoff: how many
                     \* of each message
    attempts,        \* attempts made in the current logical call
    failures,        \* single failed attempts injected in the current call
    clock,           \* time elapsed since the current logical call began
    sleep,           \* the current backoff delay
    started,         \* clock at which the latest attempt started
    prevReset,       \* reset time reported by the attempt before the latest
                     \* one, when that attempt was rate-limited (else 0)
    rateLimited,     \* rate-limited attempts of the current logical call
    storeIndex,      \* search: the SeenIndex (hashsearch store)
    latestStarCount, \* search: latestStarCount
    useStarBound,    \* search: useStarBound
    starLowerBound,  \* search: starLowerBound
    restarts,        \* search: restart queries decided so far (saturating)
    fetched,         \* page numbers fetched successfully, in order (0: a
                     \* response without content)
    observed,        \* onResponse calls made by the latest attempt
    args,            \* the arguments the required-parameter checks look at
    tree,            \* WalkFiles: the repository's tree below the start path
    stack,           \* WalkFiles: the walkFiles activations, innermost last
    werr,            \* WalkFiles: the error an activation returned
    events,          \* listing requests, visitor calls and callback calls so far
    contribCommits,  \* isShadowMember: the commits of one contributor
    variant,         \* "current": src/github.go; "legacy": the legacy variant
    observerSet,     \* whether ResponseCallback is set (not nil)
    contributors,    \* FindShadowMembersByContributions: the commits of
                     \* every contributor, in the order ListContributors
                     \* returns them
    exitingSet,      \* whether IsExitingFunc is set (not nil)
    ownerType,       \* IsOwnerAUser: the type of the account GetUser finds
    invocations,     \* two invocations of ListAllReposByLanguage on one
                     \* Client: the locals of each
    ret              \* what the operation returned: [result, err]

vars == <<op, pages, maxAge, dataset, minStars, limit, pc, optPage, allRepos,
          resp, items, errs, attempts, failures, clock, sleep, started,
          prevReset, rateLimited, storeIndex, latestStarCount, useStarBound,
          starLowerBound, restarts, fetched, observed, args,
          tree, stack, werr, events, contribCommits, variant, observerSet,
          contributors, exitingSet, ownerType, invocations, ret>>

callVars == <<resp, items, errs, attempts, failures, clock, sleep, started,
              prevReset, rateLimited, observed>>
searchVars == <<storeIndex, latestStarCount, useStarBound, starLowerBound,
                restarts>>
paramVars == <<op, pages, maxAge, dataset, minStars, limit, args, tree,
               contribCommits, variant, observerSet, contributors,
               exitingSet, ownerType>>
inputVars == <<paramVars, invocations>>
walkVars == <<stack, werr, events>>

----------------------------------------------------------------------------
(* Bounds of the model *)

MaxPages == 2        \* pages a list endpoint serves
MaxPerPage == 2      \* items on one page of a list endpoint
MaxFailures == 1     \* single failed attempts injected per logical call
MaxNoContent == 1    \* 204 responses injected per operation
MaxResetDelay == 2   \* how far ahead a rate-limit reset can be (or 1 ahead)
MaxClock == 40       \* the clock and the backoff delay saturate here
MaxRepos == 5        \* repositories matching a search
MaxStars == 2        \* largest star count of a repository
PageSize == 2        \* items per search page (PerPage: 100 in the source)
WindowPages == 2     \* pages per search result window (10 at the remote)
MaxLimit == 5        \* largest Limit option tried
MaxRestarts == 3     \* the count of restarts saturates here
MaxBelowZero == 2    \* how far below zero the star bound is followed

(* Program constants *)

ListRetries == 5         \* RetryExponentialBackoff(5, ...)
SearchRetries == 9999    \* RetryExponentialBackoff(9999, ...)
InitialSleep == 1        \* time.Second
StatusOK == 200
StatusNoContent == 204
StatusNotFound == 404
StatusForbidden == 403
StatusServerError == 500

NoResp == [status |-> 0, nextPage |-> 0, reset |-> 0]   \* resp == nil
NoErr == "nil"
ErrNotFound == "not found"
ErrAggregated == "aggregated"     \* errors.New(FormatErrorArray("", errs))
ErrPanic == "panic"               \* nil pointer dereference, panic(err)
ErrMisuse == "not provided"       \* a required parameter is missing
ErrVisitor == "visitor"           \* the error the walker returned

\* The arguments the required-parameter checks look at: whether opts is nil,
\* opts.Query / opts.Language / query, and the request's owner and repo.
ValidArgs == [optsNil |-> FALSE, query |-> "q", owner |-> "o", repo |-> "r"]

\* The tree below the start path: node i has parent tree.parent[i] (0: the
\* start path) and is a directory when tree.isDir[i]; a directory lists its
\* children in increasing order.
NoTree == [parent |-> << >>, isDir |-> << >>]

\* The error slice of RetryExponentialBackoff, by message: "exec" is "error
\* while executing request: ...", "status" is "status code is: ...".
NoErrs == [exec |-> 0, status |-> 0]
NumErrs(es) == es.exec + es.status          \* len(errs)
AddErrs(es, e, n) == [es EXCEPT ![e] = @ + n]

Min(a, b) == IF a < b THEN a ELSE b
Max(a, b) == IF a > b THEN a ELSE b

----------------------------------------------------------------------------
(* Operations *)

Getters == {"GetOrg", "GetUser", "GetRepo", "GetPull", "ListLanguagesOfRepo"}
Lists == {"ListReposByUser", "ListReposByOrg", "ListPulls",
          "ListOfficialMembers", "ListOrgsOfUser", "ListContributors",
          "ListCommits"}
Searches == {"ListAllReposByLanguage"}
QuerySearches == {"SearchRepos", "SearchReposWithCallback", "SearchCode"}
LegacySearches == {"ListReposOnlyBylanguage"}    \* legacy variant only
OwnerChecks == {"IsOwnerAnOrg", "IsOwnerAUser"}  \* call GetOrg, GetUser
Contents == {"WalkFiles", "ListContents", "DownloadFile"}

\* Mutant of Budget: the two budgets are exchanged.
Budget_exchanged(o) ==
    IF o \in Searches \cup QuerySearches \cup LegacySearches
    THEN ListRetries ELSE SearchRetries

Budget(o) ==
    IF o \in Searches \cup QuerySearches \cup LegacySearches
    THEN SearchRetries ELSE ListRetries

----------------------------------------------------------------------------
(* The remote platform, as seen through the platform API client: what one  *)
(* attempt yields.  err is the client's error value, status the response's *)
(* status (0: no response was produced), delay the distance of the         *)
(* reported rate-limit reset from the moment of the attempt.               *)

Outcomes ==
    {[err |-> NoErr, status |-> s, delay |-> 0] :
        s \in {StatusOK, StatusNoContent, StatusNotFound, StatusServerError}}
    \cup {[err |-> "ErrorResponse", status |-> s, delay |-> 0] :
        s \in {StatusNotFound, StatusServerError}}
    \cup {[err |-> "RateLimitError", status |-> StatusForbidden, delay |-> d] :
        d \in {1, MaxResetDelay}}
    \cup {[err |-> "transport", status |-> 0, delay |-> 0]}

TheObject == [id |-> 0, age |-> 0]     \* what a getter's endpoint holds

\* The page the cursor asks for: Page 0 (unset) is the first page.
CurPage == IF optPage = 0 THEN 1 ELSE optPage

\* A list endpoint: page p of pages, next cursor 0 on the last page.
ListPage(p) ==
    [items |-> pages[p],
     nextPage |-> IF p < Len(pages) THEN p + 1 ELSE 0]

----------------------------------------------------------------------------
(* The search endpoint: matches sorted by stars, descending (Sort:         *)
(* "stars"), ties in a fixed order; at most Window results per query.      *)

Window == WindowPages * PageSize

Repo(i) == [id |-> i, stars |-> dataset[i]]

\* dataset is kept sorted by stars, descending, so the matches of a query
\* "stars:<=b" are a suffix of it, in the endpoint's order.
RECURSIVE Matches(_, _, _)
Matches(i, bounded, b) ==
    IF i > Len(dataset) THEN << >>
    ELSE IF bounded /\ dataset[i] > b THEN Matches(i + 1, bounded, b)
    ELSE <<Repo(i)>> \o Matches(i + 1, bounded, b)

SearchPage(bounded, b, p) ==
    LET m == Matches(1, bounded, b)
        w == SubSeq(m, 1, Min(Len(m), Window))
        lo == (p - 1) * PageSize + 1
        hi == Min(p * PageSize, Len(w))
    IN [items |-> SubSeq(w, lo, hi),
        nextPage |-> IF p * PageSize < Len(w) THEN p + 1 ELSE 0]

\* What the endpoint of the current operation answers with status 200.
EndpointPage ==
    IF op \in Getters \cup OwnerChecks
    THEN [items |-> <<TheObject>>, nextPage |-> 0]
    ELSE IF op \in Lists THEN ListPage(CurPage)
    ELSE SearchPage(useStarBound, starLowerBound, CurPage)

\* The (result, resp) pair the platform API client hands back for outcome o.
Respond(o) ==
    IF o.status = 0 THEN [items |-> << >>, resp |-> NoResp]
    ELSE IF o.err = NoErr /\ o.status = StatusOK
         THEN [items |-> EndpointPage.items,
               resp |-> [status |-> o.status,
                         nextPage |-> EndpointPage.nextPage, reset |-> 0]]
    ELSE [items |-> << >>,
          resp |-> [status |-> o.status, nextPage |-> 0,
                    reset |-> IF o.err = "RateLimitError"
                              THEN Min(clock + o.delay, MaxClock) ELSE 0]]

----------------------------------------------------------------------------
(* The retry closure every operation passes to RetryExponentialBackoff.    *)

isRateLimitError(err) == err = "RateLimitError"

\* onResponse(resp): the observer calls it makes ("if ResponseCallback !=
\* nil").
onResponse(r) == IF observerSet THEN 1 ELSE 0

\* The legacy variant calls ResponseCallback(resp) where the current one
\* calls onResponse(resp): calling the nil function value is a panic.
ObserverCrashes == variant = "legacy" /\ ~observerSet

\* The observer calls one response leads to.
ObserverCalls(r) ==
    IF variant = "legacy" THEN (IF observerSet THEN 1 ELSE 0)
    ELSE onResponse(r)

\* handleRateLimitError: sleeps until the reset when err is a rate-limit
\* error; yields whether it was one and the clock afterwards.
handleRateLimitError(err, r, now) ==
    IF isRateLimitError(err)
    THEN [handled |-> TRUE, now |-> Max(now, r.reset)]
    ELSE [handled |-> FALSE, now |-> now]

\* Mutant of TerminalStatus: only 200 ends the logical call.
TerminalStatus_onlyOK(status) == status = StatusOK

\* The statuses the closure returns nil on: "nil on 200 and 404" (and 204).
TerminalStatus(status) ==
    status = StatusOK \/ status = StatusNotFound \/ status = StatusNoContent

\* Mutant of Closure: the observer is called before the test of err.
Closure_observesFirst(o) ==
    LET r == Respond(o).resp
        h == handleRateLimitError(o.err, r, clock)
        n == ObserverCalls(r)
    IN IF o.err # NoErr THEN [err |-> "exec", now |-> clock, observed |-> n]
       ELSE IF ~TerminalStatus(r.status)
       THEN [err |-> "status", now |-> h.now, observed |-> n]
       ELSE [err |-> NoErr, now |-> h.now, observed |-> n]

\* One run of the closure on outcome o: the error it returns (NoErr, or
\* "exec" for "error while executing request", "status" for "status code
\* is"), and the clock when it returns.
Closure(o) ==
    LET r == Respond(o).resp IN
    IF o.err # NoErr THEN [err |-> "exec", now |-> clock, observed |-> 0]
    ELSE IF ObserverCrashes                 \* the call of the observer panics
    THEN [err |-> ErrPanic, now |-> clock, observed |-> 0]
    ELSE LET h == handleRateLimitError(o.err, r, clock)
             n == ObserverCalls(r)
         IN
         IF h.handled THEN [err |-> NoErr, now |-> h.now, observed |-> n]
         ELSE IF ~TerminalStatus(r.status)
              THEN [err |-> "status", now |-> h.now, observed |-> n]
              ELSE [err |-> NoErr, now |-> h.now, observed |-> n]

\* The closure panics: the operation does not return to its retry loop.
Crashes(o) == Closure(o).err = ErrPanic

Fails(o) == Closure(o).err # NoErr /\ ~Crashes(o)

----------------------------------------------------------------------------
(* RetryExponentialBackoff(attempts, sleep, task): runs task until it      *)
(* returns nil or the budget is used up, sleeping between attempts with a  *)
(* delay that doubles; returns the errors, nil after a success.            *)

\* The clock and the delay after k further sleeps (both saturate).
RECURSIVE AfterSleeps(_, _, _)
AfterSleeps(c, s, k) ==
    IF k = 0 \/ (c = MaxClock /\ s = MaxClock) THEN [clock |-> c, sleep |-> s]
    ELSE AfterSleeps(Min(c + s, MaxClock), Min(2 * s, MaxClock), k - 1)

\* The 204 responses consumed so far.
NoContentSoFar == Cardinality({i \in DOMAIN fetched : fetched[i] = 0})

\* Mutant of Return: the accumulated items are returned beside the error.
Return_partial(result, err) ==
    /\ pc' = "done"
    /\ ret' = [result |-> IF err = NoErr THEN result ELSE allRepos, err |-> err]

\* The operation returns (result, err).
Return(result, err) ==
    /\ pc' = "done"
    /\ ret' = [result |-> result, err |-> err]

\* One attempt of the current logical call, with outcome o.
Attempt(o) ==
    /\ pc = "retry"
    /\ attempts < Budget(op)
    /\ Fails(o) => failures < MaxFailures
    /\ o.status = StatusNoContent => NoContentSoFar < MaxNoContent
    /\ LET c == Closure(o)
           a == AfterSleeps(c.now, sleep, 1)
       IN /\ resp' = Respond(o).resp
          /\ items' = Respond(o).items
          /\ started' = clock
          /\ prevReset' = resp.reset
          /\ attempts' = attempts + 1
          /\ rateLimited' = rateLimited + (IF isRateLimitError(o.err) THEN 1 ELSE 0)
          /\ observed' = c.observed
          /\ IF c.err = NoErr
             THEN /\ errs' = NoErrs
                  /\ pc' = "after"
                  /\ clock' = c.now
                  /\ UNCHANGED <<sleep, failures, ret>>
             ELSE IF Crashes(o)
             THEN /\ Return(<< >>, ErrPanic)
                  /\ UNCHANGED <<errs, sleep, failures, clock>>
             ELSE /\ errs' = AddErrs(errs, c.err, 1)
                  /\ failures' = failures + 1
                  /\ clock' = a.clock
                  /\ sleep' = a.sleep
                  /\ pc' = IF attempts + 1 < Budget(op) THEN "retry" ELSE "after"
                  /\ UNCHANGED ret
    /\ UNCHANGED <<inputVars, optPage, allRepos, searchVars, fetched,
                   walkVars>>

\* The endpoint is out for a whole logical call: it answers every attempt of
\* the call with the same failing outcome o, and the loop runs until the
\* budget is used up.
Outage(o) ==
    /\ pc = "retry"
    /\ attempts = 0
    /\ Fails(o)
    /\ LET n == Budget(op) - attempts
           last == AfterSleeps(clock, sleep, n - 1)
           prev == IF n >= 2 THEN AfterSleeps(clock, sleep, n - 2)
                   ELSE [clock |-> clock, sleep |-> sleep]
           end == AfterSleeps(clock, sleep, n)
           e == Closure(o).err
           rl == isRateLimitError(o.err)
       IN /\ resp' = [Respond(o).resp EXCEPT
                        !.reset = IF rl THEN Min(last.clock + o.delay, MaxClock)
                                  ELSE 0]
          /\ items' = << >>
          /\ started' = last.clock
          /\ prevReset' = IF n >= 2
                          THEN (IF rl THEN Min(prev.clock + o.delay, MaxClock)
                                ELSE 0)
                          ELSE resp.reset
          /\ attempts' = Budget(op)
          /\ rateLimited' = rateLimited + (IF rl THEN n ELSE 0)
          /\ observed' = Closure(o).observed
          /\ errs' = AddErrs(errs, e, n)
          /\ clock' = end.clock
          /\ sleep' = end.sleep
          /\ pc' = "after"
    /\ UNCHANGED <<inputVars, optPage, allRepos, searchVars, fetched, ret,
                   failures, walkVars>>

\* A new logical call begins (next loop iteration): fresh resp, fresh errs.
NewCall ==
    /\ resp' = NoResp
    /\ items' = << >>
    /\ errs' = NoErrs
    /\ attempts' = 0
    /\ failures' = 0
    /\ clock' = 0
    /\ sleep' = InitialSleep
    /\ started' = 0
    /\ prevReset' = 0
    /\ rateLimited' = 0
    /\ observed' = 0

----------------------------------------------------------------------------
(* Getters: GetOrg, GetUser, GetRepo, ListLanguagesOfRepo, and GetPull.    *)

\* GetOrg and the getters written like it, after RetryExponentialBackoff.
GetterReturn ==
    /\ pc = "after"
    /\ op \in Getters \ {"GetPull"}
    /\ IF NumErrs(errs) > 0 THEN Return(<< >>, ErrAggregated)
       ELSE IF resp.status = StatusNotFound THEN Return(<< >>, ErrNotFound)
       ELSE Return(items, NoErr)
    /\ UNCHANGED <<inputVars, optPage, allRepos, callVars, searchVars, fetched,
                   walkVars>>

\* GetPull, after RetryExponentialBackoff: it reads resp.StatusCode in the
\* failure branch too (a nil resp there is a nil pointer dereference).
GetPullReturn ==
    /\ pc = "after"
    /\ op = "GetPull"
    /\ IF NumErrs(errs) > 0
       THEN IF resp = NoResp THEN Return(<< >>, ErrPanic)
            ELSE IF resp.status = StatusNotFound
                 THEN Return(<< >>, ErrNotFound)
                 ELSE Return(<< >>, ErrAggregated)
       ELSE IF resp.status = StatusNotFound THEN Return(<< >>, ErrNotFound)
       ELSE Return(items, NoErr)
    /\ UNCHANGED <<inputVars, optPage, allRepos, callVars, searchVars, fetched,
                   walkVars>>

----------------------------------------------------------------------------
(* Paginated list operations. *)

\* Whether the next cursor ends the loop; otherwise the cursor advances and
\* the next iteration's logical call begins.
Advance(acc) ==
    IF resp.nextPage = 0
    THEN /\ Return(acc, NoErr)
         /\ UNCHANGED <<optPage, callVars>>
    ELSE /\ optPage' = resp.nextPage
         /\ pc' = "retry"
         /\ NewCall
         /\ UNCHANGED ret

\* The pages fetched so far: the page number for a 200, 0 for a response
\* that carried no page (204).
Fetched == Append(fetched, IF resp.status = StatusOK THEN CurPage ELSE 0)

\* Mutant of AppendAll: the page is appended twice.
AppendAll_twice(all, its) == all \o its \o its

\* Mutant of AppendAll: the page replaces the accumulated items.
AppendAll_overwrite(all, its) == its

\* append(allRepos, repos...)
AppendAll(all, its) == all \o its

\* ListReposByUser and the list operations written like it: one loop
\* iteration after RetryExponentialBackoff returned.
ListStep ==
    /\ pc = "after"
    /\ op \in Lists \ {"ListCommits"}
    /\ IF NumErrs(errs) > 0
       THEN /\ Return(<< >>, ErrAggregated)
            /\ UNCHANGED <<optPage, allRepos, callVars, fetched>>
       ELSE IF resp.status = StatusNotFound
       THEN /\ Return(<< >>, ErrNotFound)
            /\ UNCHANGED <<optPage, allRepos, callVars, fetched>>
       ELSE /\ allRepos' = AppendAll(allRepos, items)
            /\ fetched' = Fetched
            /\ Advance(AppendAll(allRepos, items))
    /\ UNCHANGED <<inputVars, searchVars, walkVars>>

\* Mutant of isTooOld: no commit counts as too old.
isTooOld_never(commit) == FALSE

\* Mutant of isTooOld: a commit of exactly maxAge counts as too old.
isTooOld_atLimit(commit) == commit.age >= maxAge

\* time.Now().Sub(commit.Commit.Author.GetDate()) > maxAge
isTooOld(commit) == commit.age > maxAge

\* The commits of a page that precede its first too-old commit.
RECURSIVE TakeFresh(_)
TakeFresh(commits) ==
    IF commits = << >> THEN << >>
    ELSE IF isTooOld(Head(commits)) THEN << >>
    ELSE <<Head(commits)>> \o TakeFresh(Tail(commits))

\* ListCommits: one loop iteration after RetryExponentialBackoff returned.
ListCommitsStep ==
    /\ pc = "after"
    /\ op = "ListCommits"
    /\ IF NumErrs(errs) > 0
       THEN /\ Return(<< >>, ErrAggregated)
            /\ UNCHANGED <<optPage, allRepos, callVars, fetched>>
       ELSE IF resp.status = StatusNotFound
       THEN /\ Return(<< >>, ErrNotFound)
            /\ UNCHANGED <<optPage, allRepos, callVars, fetched>>
       ELSE IF maxAge > 0
       THEN LET fresh == TakeFresh(items) IN
            /\ allRepos' = allRepos \o fresh
            /\ fetched' = Fetched
            /\ IF Len(fresh) < Len(items)
               THEN /\ Return(allRepos \o fresh, NoErr)       \* break PageLister
                    /\ UNCHANGED <<optPage, callVars>>
               ELSE Advance(allRepos \o fresh)
       ELSE /\ allRepos' = AppendAll(allRepos, items)
            /\ fetched' = Fetched
            /\ Advance(AppendAll(allRepos, items))
    /\ UNCHANGED <<inputVars, searchVars, walkVars>>

----------------------------------------------------------------------------
(* The inputs of the non-search operations. *)

Ages == {1, 2}

Shapes == UNION {[1..P -> 0..MaxPerPage] : P \in 1..MaxPages}

RECURSIVE SumTo(_, _)
SumTo(shape, p) == IF p = 0 THEN 0 ELSE shape[p] + SumTo(shape, p - 1)

\* The pages of shape (items per page), item ids 1..K in pagination order.
MkPages(shape, ages) ==
    [p \in 1..Len(shape) |->
        [j \in 1..shape[p] |->
            [id |-> SumTo(shape, p - 1) + j,
             age |-> ages[SumTo(shape, p - 1) + j]]]]

PageSets(withAges) ==
    {MkPages(sh, ag) :
        sh \in Shapes,
        ag \in [1..(MaxPages * MaxPerPage) -> IF withAges THEN Ages ELSE {1}]}

InitLocals ==
    /\ optPage = 0
    /\ allRepos = << >>
    /\ resp = NoResp
    /\ items = << >>
    /\ errs = NoErrs
    /\ attempts = 0
    /\ failures = 0
    /\ clock = 0
    /\ sleep = InitialSleep
    /\ started = 0
    /\ prevReset = 0
    /\ rateLimited = 0
    /\ observed = 0
    /\ fetched = << >>
    /\ ret = [result |-> << >>, err |-> NoErr]

InitCall ==
    /\ pc = "retry"
    /\ InitLocals

\* The current variant, with a response observer set.
InitCurrent ==
    /\ variant = "current"
    /\ observerSet = TRUE

\* No scan for shadow members is in progress.
InitNoScan ==
    /\ contributors = << >>
    /\ exitingSet = TRUE

\* No check of an owner is in progress, and the operation is invoked once.
InitNoOwner ==
    /\ ownerType = "User"
    /\ invocations = << >>

\* No tree walk and no classification is in progress; the required
\* parameters are all provided.
InitNoWalk ==
    /\ InitCurrent
    /\ InitNoScan
    /\ InitNoOwner
    /\ args = ValidArgs
    /\ tree = NoTree
    /\ stack = << >>
    /\ werr = NoErr
    /\ events = << >>
    /\ contribCommits = << >>

InitNoSearch ==
    /\ dataset = << >>
    /\ minStars = 0
    /\ limit = 0
    /\ storeIndex = {}
    /\ latestStarCount = 0
    /\ useStarBound = FALSE
    /\ starLowerBound = -1
    /\ restarts = 0

Init ==
    /\ op \in Getters \cup Lists
    /\ maxAge \in IF op = "ListCommits" THEN {-1, 0, 1} ELSE {0}
    /\ pages \in IF op \in Getters THEN {<< >>}
                 ELSE PageSets(op = "ListCommits" /\ maxAge > 0)
    /\ InitNoSearch
    /\ InitNoWalk
    /\ InitCall

Next ==
    \/ \E o \in Outcomes : Attempt(o)
    \/ \E o \in Outcomes : Outage(o)
    \/ GetterReturn
    \/ GetPullReturn
    \/ ListStep
    \/ ListCommitsStep

Spec == Init /\ [][Next]_vars

----------------------------------------------------------------------------
(* ListAllReposByLanguage. *)

\* Mutant of Add: the identifier is not recorded.
Add_forgets(index, id) == index

\* Mutant of Accumulate: the repository is put in front.
Accumulate_front(all, repo) == <<repo>> \o all

\* storeIndex.Has(id), storeIndex.Add(id), append(allRepos, repo)
Has(index, id) == id \in index
Add(index, id) == index \cup {id}
Accumulate(all, repo) == Append(all, repo)

\* Mutant of LimitReached: the loop stops one item late.
LimitReached_late(lim, n) == lim > 0 /\ n > lim

\* opts.Limit > 0 && len(allRepos) >= opts.Limit
LimitReached(lim, n) == lim > 0 /\ n >= lim

\* Mutant of BelowFloor: the floor is taken one star too low.
BelowFloor_lenient(stars, floor) == stars < floor - 1

\* repo.GetStargazersCount() < opts.MinStars
BelowFloor(stars, floor) == stars < floor

\* The loop over repos.Repositories under Limit lim: st is [all, index,
\* latest, stop], stop meaning "break GetterLoop".
RECURSIVE ScanWith(_, _, _)
ScanWith(rs, st, lim) ==
    IF rs = << >> THEN st
    ELSE LET repo == Head(rs) IN
         IF BelowFloor(repo.stars, minStars) THEN [st EXCEPT !.stop = TRUE]
         ELSE IF ~Has(st.index, repo.id)
         THEN LET st2 == [all |-> Accumulate(st.all, repo),
                          index |-> Add(st.index, repo.id),
                          latest |-> repo.stars,
                          stop |-> LimitReached(lim, Len(st.all) + 1)]
              IN IF st2.stop THEN st2 ELSE ScanWith(Tail(rs), st2, lim)
         ELSE ScanWith(Tail(rs), st, lim)

\* The loop under the Limit of the invocation.
Scan(rs, st) == ScanWith(rs, st, limit)

\* Mutant of NextBound: the bound is lowered by one on every restart.
NextBound_alwaysDecrement(bound, latest) == latest - 1

\* Mutant of NextBound: the bound is never decremented.
NextBound_noDecrement(bound, latest) == latest

\* Mutant of BoundExhausted: the check of the bound against zero is missing.
BoundExhausted_never(bound) == FALSE

\* The star count the next bound is set to, when the window is exhausted.
NextBound(bound, latest) == IF bound = latest THEN latest - 1 ELSE latest

\* "If starLowerBound is zero, it means we can't go any lower"
BoundExhausted(bound) == bound = 0

\* Whether GetterLoop ends at an exhausted window under bound: the legacy
\* ListReposOnlyBylanguage has no check of the bound.
EndsAtBound(bound) == op \notin LegacySearches /\ BoundExhausted(bound)

\* One iteration of GetterLoop after RetryExponentialBackoff returned.
SearchStep ==
    /\ pc = "after"
    /\ op \in Searches \cup LegacySearches
    /\ IF NumErrs(errs) > 0
       THEN /\ Return(<< >>, ErrAggregated)
            /\ UNCHANGED <<optPage, allRepos, callVars, searchVars, fetched>>
       ELSE IF resp.status = StatusNotFound
       THEN /\ Return(<< >>, ErrNotFound)
            /\ UNCHANGED <<optPage, allRepos, callVars, searchVars, fetched>>
       ELSE LET st == Scan(items, [all |-> allRepos, index |-> storeIndex,
                                   latest |-> latestStarCount, stop |-> FALSE])
            IN /\ allRepos' = st.all
               /\ storeIndex' = st.index
               /\ fetched' = Fetched
               /\ IF st.stop \/ (resp.nextPage = 0 /\ EndsAtBound(starLowerBound))
                  THEN /\ Return(st.all, NoErr)
                       /\ latestStarCount' = st.latest
                       /\ UNCHANGED <<optPage, callVars, useStarBound,
                                      starLowerBound, restarts>>
                  ELSE IF resp.nextPage = 0
                  THEN /\ NextBound(starLowerBound, st.latest) >= -MaxBelowZero
                       /\ useStarBound' = TRUE
                       /\ latestStarCount' = NextBound(starLowerBound, st.latest)
                       /\ starLowerBound' = NextBound(starLowerBound, st.latest)
                       /\ optPage' = 1                        \* Restart
                       /\ restarts' = Min(restarts + 1, MaxRestarts)
                       /\ pc' = "retry"
                       /\ NewCall
                       /\ UNCHANGED ret
                  ELSE /\ optPage' = resp.nextPage
                       /\ latestStarCount' = st.latest
                       /\ pc' = "retry"
                       /\ NewCall
                       /\ UNCHANGED <<ret, useStarBound, starLowerBound, restarts>>
    /\ UNCHANGED <<inputVars, walkVars>>

\* GetterLoop from query state q = [all, index, latest, bounded, bound, page]
\* to its return, under Limit lim, when every request is answered with
\* status 200 at the first attempt: the result it returns.
RECURSIVE SearchRun(_, _)
SearchRun(lim, q) ==
    LET pg == SearchPage(q.bounded, q.bound, q.page)
        st == ScanWith(pg.items, [all |-> q.all, index |-> q.index,
                                  latest |-> q.latest, stop |-> FALSE], lim)
    IN IF st.stop \/ (pg.nextPage = 0 /\ BoundExhausted(q.bound))
       THEN st.all
       ELSE IF pg.nextPage = 0
       THEN SearchRun(lim, [all |-> st.all, index |-> st.index,
                            latest |-> NextBound(q.bound, st.latest),
                            bounded |-> TRUE,
                            bound |-> NextBound(q.bound, st.latest),
                            page |-> 1])
       ELSE SearchRun(lim, [all |-> st.all, index |-> st.index,
                            latest |-> st.latest, bounded |-> q.bounded,
                            bound |-> q.bound, page |-> pg.nextPage])

\* The locals of ListAllReposByLanguage when GetterLoop is entered.
SearchStart ==
    [all |-> << >>, index |-> {}, latest |-> 0, bounded |-> FALSE,
     bound |-> -1, page |-> 1]

\* The datasets: star counts in the endpoint's order (descending).
Datasets ==
    {d \in UNION {[1..n -> 0..MaxStars] : n \in 0..MaxRepos} :
        \A i \in 1..(Len(d) - 1) : d[i] >= d[i + 1]}

InitSearch ==
    /\ op \in Searches
    /\ pages = << >>
    /\ maxAge = 0
    /\ dataset \in Datasets
    /\ minStars \in {0, 1, MaxStars}
    /\ limit \in {0, 1, MaxLimit}
    /\ storeIndex = {}
    /\ latestStarCount = 0
    /\ useStarBound = FALSE
    /\ starLowerBound = -1
    /\ restarts = 0
    /\ InitNoWalk
    /\ InitCall

NextSearch ==
    \/ \E o \in Outcomes : Attempt(o)
    \/ \E o \in Outcomes : Outage(o)
    \/ SearchStep

SpecSearch == InitSearch /\ [][NextSearch]_vars

\* The program keeps running: a step that can be taken is taken.
FairSpecSearch == SpecSearch /\ WF_vars(NextSearch)

\* Every operation of the client.
InitAll == Init \/ InitSearch

NextAll ==
    \/ \E o \in Outcomes : Attempt(o)
    \/ \E o \in Outcomes : Outage(o)
    \/ GetterReturn
    \/ GetPullReturn
    \/ ListStep
    \/ ListCommitsStep
    \/ SearchStep

SpecAll == InitAll /\ [][NextAll]_vars

----------------------------------------------------------------------------
(* RepoExplorationRequest.WalkFiles and walkFiles. *)

\* RepoExplorationRequest.Validate / Params.Validate: owner and repo are
\* required.
ValidParams(a) == a.owner # "" /\ a.repo # ""

Nodes == 1..Len(tree.parent)

\* Mutant of IsDir: every entry counts as a directory.
IsDir_always(v) == TRUE

\* Mutant of IsDir: no entry counts as a directory.
IsDir_never(v) == FALSE

\* v.GetType() == "dir"
IsDir(v) == tree.isDir[v]

\* What the contents endpoint lists for directory d.
Children(d) ==
    SelectSeq([i \in 1..Len(tree.parent) |-> i],
              LAMBDA i : tree.parent[i] = d)

\* The contents endpoint answers a listing with status 200 or with an error.
ListOutcomes == {o \in Outcomes : o.err # NoErr \/ o.status = StatusOK}

ListEvent(d, o) == [kind |-> "list", node |-> d, ok |-> o.err = NoErr]
VisitEvent(v, ok) == [kind |-> "visit", node |-> v, ok |-> ok]

\* The variables the tree walk does not touch.
nonWalkVars == <<inputVars, optPage, allRepos, searchVars, fetched, items,
                 errs, attempts, failures, clock, sleep, started, prevReset,
                 rateLimited>>

\* WalkFiles up to its call of walkFiles: the required-parameter check and
\* the listing of the start path.
WalkFiles ==
    /\ pc = "call"
    /\ op = "WalkFiles"
    /\ IF ~ValidParams(args)
       THEN /\ Return(<< >>, ErrMisuse)
            /\ UNCHANGED <<walkVars, resp, observed>>
       ELSE \E o \in ListOutcomes :
            /\ events' = Append(events, ListEvent(0, o))
            /\ resp' = Respond(o).resp
            /\ IF o.err # NoErr
               THEN /\ Return(<< >>, ErrPanic)             \* panic(err)
                    /\ observed' = 0
                    /\ UNCHANGED <<stack, werr>>
               ELSE /\ observed' = onResponse(Respond(o).resp)
                    /\ stack' = <<[dir |-> 0, rest |-> Children(0)]>>
                    /\ pc' = "walk"
                    /\ UNCHANGED <<werr, ret>>
    /\ UNCHANGED nonWalkVars

Top == stack[Len(stack)]
Pop == SubSeq(stack, 1, Len(stack) - 1)

\* walkFiles at a directory entry: it lists the directory and, when the
\* listing succeeded, walks what it lists.
ListDir ==
    /\ pc = "walk"
    /\ werr = NoErr
    /\ stack # << >>
    /\ Top.rest # << >>
    /\ IsDir(Head(Top.rest))
    /\ \E o \in ListOutcomes :
         LET v == Head(Top.rest) IN
         /\ events' = Append(events, ListEvent(v, o))
         /\ resp' = Respond(o).resp
         /\ IF o.err # NoErr
            THEN /\ werr' = o.err                          \* return err
                 /\ observed' = 0
                 /\ UNCHANGED stack
            ELSE /\ observed' = onResponse(Respond(o).resp)
                 /\ stack' = Append(stack, [dir |-> v, rest |-> Children(v)])
                 /\ UNCHANGED werr
    /\ UNCHANGED <<nonWalkVars, pc, ret>>

\* The walker's verdict on a node: nil or an error.
Verdict(ok) == IF ok THEN NoErr ELSE ErrVisitor

\* walkFiles at an entry that is not a directory: walker(v).
VisitFile ==
    /\ pc = "walk"
    /\ werr = NoErr
    /\ stack # << >>
    /\ Top.rest # << >>
    /\ ~IsDir(Head(Top.rest))
    /\ \E ok \in BOOLEAN :
         /\ events' = Append(events, VisitEvent(Head(Top.rest), ok))
         /\ werr' = Verdict(ok)
         /\ stack' = IF ok THEN [stack EXCEPT ![Len(stack)].rest = Tail(@)]
                      ELSE stack
    /\ UNCHANGED <<nonWalkVars, pc, ret, resp, observed>>

\* Mutant of Propagates: the error of the recursive call is dropped.
Propagates_never(err) == FALSE

\* "err = r.walkFiles(directoryContent, walker); if err != nil"
Propagates(err) == err # NoErr

\* An activation of walkFiles returns (its loop is over, or it met an
\* error): WalkFiles returns the same; an enclosing activation returns the
\* error too, or calls walker on the directory it has just walked.
ReturnFrame ==
    /\ pc = "walk"
    /\ stack # << >>
    /\ Top.rest = << >> \/ werr # NoErr
    /\ IF Len(stack) = 1
       THEN /\ Return(<< >>, werr)
            /\ stack' = << >>
            /\ UNCHANGED <<werr, events>>
       ELSE IF Propagates(werr)
       THEN /\ stack' = Pop
            /\ UNCHANGED <<werr, events, pc, ret>>
       ELSE \E ok \in BOOLEAN :
            LET v == Head(Pop[Len(Pop)].rest) IN
            /\ events' = Append(events, VisitEvent(v, ok))
            /\ werr' = Verdict(ok)
            /\ stack' = IF ok THEN [Pop EXCEPT ![Len(Pop)].rest = Tail(@)]
                         ELSE Pop
            /\ UNCHANGED <<pc, ret>>
    /\ UNCHANGED <<nonWalkVars, resp, observed>>

MaxNodes == 4        \* nodes of the tree below the start path

Trees ==
    {t \in UNION {[parent : [1..n -> 0..(n - 1)], isDir : [1..n -> BOOLEAN]] :
                    n \in 0..MaxNodes} :
        \A i \in DOMAIN t.parent :
            /\ t.parent[i] < i
            /\ t.parent[i] # 0 => t.isDir[t.parent[i]]}

InitWalk ==
    /\ op = "WalkFiles"
    /\ pc = "call"
    /\ args \in [optsNil : {FALSE}, query : {"q"}, owner : {"", "o"},
                  repo : {"", "r"}]
    /\ tree \in Trees
    /\ stack = << >>
    /\ werr = NoErr
    /\ events = << >>
    /\ contribCommits = << >>
    /\ pages = << >>
    /\ maxAge = 0
    /\ InitNoSearch
    /\ InitLocals
    /\ InitCurrent
    /\ InitNoScan
    /\ InitNoOwner

NextWalk ==
    \/ WalkFiles
    \/ ListDir
    \/ VisitFile
    \/ ReturnFrame

SpecWalk == InitWalk /\ [][NextWalk]_vars

\* Every operation that calls the observer from a closure of its own or
\* from a listing of the tree walk.
InitEvery == Init \/ InitWalk

NextEvery == Next \/ NextWalk

SpecEvery == InitEvery /\ [][NextEvery]_vars

----------------------------------------------------------------------------
(* isShadowMember: the classification of one contributor's commits. *)

MaxCommits == 2      \* commits of one contributor

WebFlow == "web-flow"

\* commit.Author.GetLogin(), commit.Committer.GetLogin(): "" when absent.
Logins == {"", "X", "Y", WebFlow}

Commits == [author : Logins, committer : Logins]

\* Mutant of isDirectCommit: a commit merged via the web UI counts as direct.
isDirectCommit_orWebFlow(commit) ==
    commit.author = commit.committer \/ commit.committer = WebFlow

isDirectCommit(commit) == commit.author = commit.committer
isMergedByCommitterCommit(commit) == commit.committer = WebFlow
isModeratedPRCommit(commit) == commit.author # commit.committer

\* Mutant of isShadowMember: only the latest commit is looked at.
isShadowMember_lastOnly(cs) == cs # << >> /\ isDirectCommit(cs[Len(cs)])

RECURSIVE isShadowMember(_)
isShadowMember(cs) ==
    IF cs = << >> THEN FALSE
    ELSE IF isDirectCommit(Head(cs)) THEN TRUE
    ELSE isShadowMember(Tail(cs))

\* FindShadowMembersByContributions classifies the commits of a contributor.
Classify ==
    /\ pc = "call"
    /\ op = "isShadowMember"
    /\ Return(isShadowMember(contribCommits), NoErr)
    /\ UNCHANGED <<inputVars, optPage, allRepos, callVars, searchVars, fetched,
                   walkVars>>

InitShadow ==
    /\ op = "isShadowMember"
    /\ pc = "call"
    /\ contribCommits \in UNION {[1..n -> Commits] : n \in 0..MaxCommits}
    /\ args = ValidArgs
    /\ tree = NoTree
    /\ stack = << >>
    /\ werr = NoErr
    /\ events = << >>
    /\ pages = << >>
    /\ maxAge = 0
    /\ InitNoSearch
    /\ InitLocals
    /\ InitCurrent
    /\ InitNoScan
    /\ InitNoOwner

NextShadow == Classify

SpecShadow == InitShadow /\ [][NextShadow]_vars

----------------------------------------------------------------------------
(* FindShadowMembersByContributions: the scan over the contributors of a   *)
(* repository.  ListContributors and ListCommitsByAuthor are the list      *)
(* operations modelled above; here each is one request of the scan that    *)
(* succeeds or fails.                                                      *)

MaxContributors == 3   \* contributors of the repository
MaxScanCommits == 1    \* commits of one contributor of the scan

ErrWrapped == "error while"       \* fmt.Errorf("error while ...: %w", err)

\* The commits of the scan: a direct one and a moderated one.
ScanCommits == [author : {"X"}, committer : {"X", "Y"}]

ContributorsEvent(ok) == [kind |-> "contributors", node |-> 0, ok |-> ok]
PollEvent(i, exiting) == [kind |-> "poll", node |-> i, ok |-> exiting]
CommitsEvent(i, ok) == [kind |-> "commits", node |-> i, ok |-> ok]

\* The contributor the loop is at: one past those whose commits were
\* requested.
ScanAt ==
    1 + Cardinality({j \in DOMAIN events : events[j].kind = "commits"})

\* FindShadowMembersByContributions up to its loop: ListContributors.
FindShadowMembersByContributions ==
    /\ pc = "call"
    /\ op = "FindShadowMembersByContributions"
    /\ \E ok \in BOOLEAN :
         /\ events' = Append(events, ContributorsEvent(ok))
         /\ IF ok THEN /\ pc' = "scan"
                       /\ UNCHANGED ret
            ELSE Return(<< >>, ErrWrapped)
    /\ UNCHANGED <<inputVars, optPage, searchVars, fetched, allRepos, resp,
                   items, errs, attempts, failures, clock, sleep, started,
                   prevReset, rateLimited, observed, stack, werr>>

\* Mutant of Exits: the answer of the cancellation predicate is ignored.
Exits_never(exiting) == FALSE

\* "if IsExitingFunc() { return shadowMembers, nil }"
Exits(exiting) == exiting

\* The top of one loop iteration: the cancellation predicate is called
\* (calling it when it is nil is a panic).
PollExit ==
    /\ pc = "scan"
    /\ ScanAt <= Len(contributors)
    /\ IF ~exitingSet
       THEN /\ Return(<< >>, ErrPanic)
            /\ UNCHANGED events
       ELSE \E exiting \in BOOLEAN :
            /\ events' = Append(events, PollEvent(ScanAt, exiting))
            /\ IF Exits(exiting) THEN Return(allRepos, NoErr)
               ELSE /\ pc' = "fetch"
                    /\ UNCHANGED ret
    /\ UNCHANGED <<inputVars, optPage, searchVars, fetched, allRepos, resp,
                   items, errs, attempts, failures, clock, sleep, started,
                   prevReset, rateLimited, observed, stack, werr>>

\* The rest of the iteration: ListCommitsByAuthor, then isShadowMember on
\* the commits it returned.
ListCommitsByAuthor ==
    /\ pc = "fetch"
    /\ \E ok \in BOOLEAN :
         /\ events' = Append(events, CommitsEvent(ScanAt, ok))
         /\ IF ~ok
            THEN /\ Return(<< >>, ErrWrapped)
                 /\ UNCHANGED allRepos
            ELSE /\ allRepos' = IF isShadowMember(contributors[ScanAt])
                                THEN Append(allRepos, ScanAt) ELSE allRepos
                 /\ pc' = "scan"
                 /\ UNCHANGED ret
    /\ UNCHANGED <<inputVars, optPage, searchVars, fetched, resp,
                   items, errs, attempts, failures, clock, sleep, started,
                   prevReset, rateLimited, observed, stack, werr>>

\* The loop is over: "return shadowMembers, nil".
ScanReturn ==
    /\ pc = "scan"
    /\ ScanAt > Len(contributors)
    /\ Return(allRepos, NoErr)
    /\ UNCHANGED <<inputVars, optPage, searchVars, fetched, allRepos, callVars,
                   walkVars>>

InitScan ==
    /\ op = "FindShadowMembersByContributions"
    /\ pc = "call"
    /\ contributors \in
         UNION {[1..n -> UNION {[1..k -> ScanCommits] : k \in 0..MaxScanCommits}] :
                  n \in 0..MaxContributors}
    /\ exitingSet \in BOOLEAN
    /\ InitNoOwner
    /\ args = ValidArgs
    /\ tree = NoTree
    /\ stack = << >>
    /\ werr = NoErr
    /\ events = << >>
    /\ contribCommits = << >>
    /\ pages = << >>
    /\ maxAge = 0
    /\ InitNoSearch
    /\ InitLocals
    /\ InitCurrent

NextScan ==
    \/ FindShadowMembersByContributions
    \/ PollExit
    \/ ListCommitsByAuthor
    \/ ScanReturn

SpecScan == InitScan /\ [][NextScan]_vars

----------------------------------------------------------------------------
(* The operations that check their required parameters first: the searches *)
(* and the operations of RepoExplorationRequest.                           *)

\* Mutant of ValidOpts: an empty Query / Language passes.
ValidOpts_nilOnly(a) == ~a.optsNil

\* SearchReposOpts.Validate, SearchCodeOpts.Validate,
\* ListAllReposByLanguageOpts.Validate
ValidOpts(a) == ~a.optsNil /\ a.query # ""

\* The check at the head of an operation: it goes on to its first request,
\* or returns the error.
Enter(valid) ==
    /\ pc = "call"
    /\ IF valid
       THEN /\ pc' = "retry"
            /\ UNCHANGED ret
       ELSE Return(<< >>, ErrMisuse)
    /\ UNCHANGED <<inputVars, optPage, allRepos, callVars, searchVars, fetched,
                   walkVars>>

ListAllReposByLanguage ==
    /\ op = "ListAllReposByLanguage"
    /\ Enter(ValidOpts(args))

SearchRepos ==
    /\ op = "SearchRepos"
    /\ Enter(ValidOpts(args))

SearchCode ==
    /\ op = "SearchCode"
    /\ Enter(ValidOpts(args))

SearchReposWithCallback ==
    /\ op = "SearchReposWithCallback"
    /\ Enter(args.query # "")

\* callback(page): the page number, the items handed over, the answer.
CallbackEvent(p, its, doContinue) ==
    [kind |-> "callback", node |-> p, page |-> its, ok |-> doContinue]

\* Mutant of Skips: no item is skipped.
Skips_never(stars, floor) == FALSE

\* "if repo.GetStargazersCount() < opts.MinStars { continue }"
Skips(stars, floor) == stars < floor

\* Mutant of CallbackStops: the answer of the callback is ignored.
CallbackStops_never(doContinue) == FALSE

\* "if !doContinue { return nil }"
CallbackStops(doContinue) == ~doContinue

\* The callback SearchRepos passes: items below MinStars are skipped, the
\* others appended, and it returns false once Limit items are held.
RECURSIVE Collect(_, _)
Collect(rs, all) ==
    IF rs = << >> THEN [all |-> all, doContinue |-> TRUE]
    ELSE IF Skips(Head(rs).stars, minStars) THEN Collect(Tail(rs), all)
    ELSE IF LimitReached(limit, Len(all) + 1)
         THEN [all |-> Append(all, Head(rs)), doContinue |-> FALSE]
         ELSE Collect(Tail(rs), Append(all, Head(rs)))

\* SearchReposWithCallback, called directly or by SearchRepos: one loop
\* iteration after RetryExponentialBackoff returned.
SearchReposStep ==
    /\ pc = "after"
    /\ op \in {"SearchRepos", "SearchReposWithCallback"}
    /\ IF NumErrs(errs) > 0
       THEN /\ Return(<< >>, ErrAggregated)
            /\ UNCHANGED <<optPage, allRepos, callVars, fetched, events>>
       ELSE IF resp.status = StatusNotFound
       THEN /\ Return(<< >>, ErrNotFound)
            /\ UNCHANGED <<optPage, allRepos, callVars, fetched, events>>
       ELSE \E verdict \in BOOLEAN :
            LET st == IF op = "SearchRepos" THEN Collect(items, allRepos)
                      ELSE [all |-> allRepos, doContinue |-> verdict]
            IN /\ allRepos' = st.all
               /\ fetched' = Fetched
               /\ events' = Append(events,
                                   CallbackEvent(CurPage, items, st.doContinue))
               /\ IF CallbackStops(st.doContinue)
                  THEN /\ Return(st.all, NoErr)
                       /\ UNCHANGED <<optPage, callVars>>
                  ELSE Advance(st.all)
    /\ UNCHANGED <<inputVars, searchVars, stack, werr>>

\* The loop over repos.CodeResults: every result is appended until Limit
\* results are held.
RECURSIVE TakeUpTo(_, _)
TakeUpTo(rs, all) ==
    IF rs = << >> THEN [all |-> all, stop |-> FALSE]
    ELSE IF LimitReached(limit, Len(all) + 1)
         THEN [all |-> Append(all, Head(rs)), stop |-> TRUE]
         ELSE TakeUpTo(Tail(rs), Append(all, Head(rs)))

\* SearchCode: one loop iteration after RetryExponentialBackoff returned.
SearchCodeStep ==
    /\ pc = "after"
    /\ op = "SearchCode"
    /\ IF NumErrs(errs) > 0
       THEN /\ Return(<< >>, ErrAggregated)
            /\ UNCHANGED <<optPage, allRepos, callVars, fetched>>
       ELSE IF resp.status = StatusNotFound
       THEN /\ Return(<< >>, ErrNotFound)
            /\ UNCHANGED <<optPage, allRepos, callVars, fetched>>
       ELSE LET st == TakeUpTo(items, allRepos)
            IN /\ allRepos' = st.all
               /\ fetched' = Fetched
               /\ IF st.stop
                  THEN /\ Return(st.all, NoErr)             \* break GetterLoop
                       /\ UNCHANGED <<optPage, callVars>>
                  ELSE Advance(st.all)
    /\ UNCHANGED <<inputVars, searchVars, walkVars>>

\* ListContents and DownloadFile: the check, then one request to the
\* contents endpoint, whose answer is returned as it is.
ContentsRequest(result) ==
    /\ pc = "call"
    /\ IF ~ValidParams(args)
       THEN /\ Return(<< >>, ErrMisuse)
            /\ UNCHANGED <<resp, attempts>>
       ELSE \E o \in ListOutcomes :
            /\ resp' = Respond(o).resp
            /\ attempts' = attempts + 1
            /\ Return(IF o.err = NoErr THEN result ELSE << >>, o.err)
    /\ UNCHANGED <<inputVars, optPage, allRepos, searchVars, fetched, items,
                   errs, failures, clock, sleep, started, prevReset,
                   rateLimited, observed, walkVars>>

\* ListContents(path): the directory content of the path.
ListContents ==
    /\ op = "ListContents"
    /\ ContentsRequest(Children(0))

\* DownloadFile(filepath): the file's content.
DownloadFile ==
    /\ op = "DownloadFile"
    /\ ContentsRequest(<<TheObject>>)

\* The datasets of the searches by query, which ask for no sort order:
\* star counts in any order.
QueryDatasets == UNION {[1..n -> {0, MaxStars}] : n \in 0..MaxRepos}

ArgSets(o) ==
    IF o \in Contents
    THEN [optsNil : {FALSE}, query : {"q"}, owner : {"", "o"}, repo : {"", "r"}]
    ELSE IF o = "SearchReposWithCallback"
    THEN [optsNil : {FALSE}, query : {"", "q"}, owner : {"o"}, repo : {"r"}]
    ELSE [optsNil : BOOLEAN, query : {"", "q"}, owner : {"o"}, repo : {"r"}]

InitEntry ==
    /\ op \in Searches \cup QuerySearches \cup Contents
    /\ pc = "call"
    /\ args \in ArgSets(op)
    /\ tree \in IF op \in {"WalkFiles", "ListContents"} THEN Trees ELSE {NoTree}
    /\ dataset \in IF op \in Contents THEN {<< >>}
                   ELSE IF op \in QuerySearches THEN QueryDatasets
                   ELSE Datasets
    /\ minStars \in IF op \in {"ListAllReposByLanguage", "SearchRepos"}
                      THEN {0, 1} ELSE {0}
    /\ limit \in IF op = "SearchRepos" THEN {0, PageSize, MaxLimit}
                   ELSE IF op \in {"ListAllReposByLanguage", "SearchCode"}
                   THEN {0, MaxLimit} ELSE {0}
    /\ pages = << >>
    /\ maxAge = 0
    /\ storeIndex = {}
    /\ latestStarCount = 0
    /\ useStarBound = FALSE
    /\ starLowerBound = -1
    /\ restarts = 0
    /\ stack = << >>
    /\ werr = NoErr
    /\ events = << >>
    /\ contribCommits = << >>
    /\ InitLocals
    /\ InitCurrent
    /\ InitNoScan
    /\ InitNoOwner

NextEntry ==
    \/ ListAllReposByLanguage
    \/ SearchRepos
    \/ SearchCode
    \/ SearchReposWithCallback
    \/ \E o \in Outcomes : Attempt(o)
    \/ \E o \in Outcomes : Outage(o)
    \/ SearchStep
    \/ SearchReposStep
    \/ SearchCodeStep
    \/ WalkFiles
    \/ ListDir
    \/ VisitFile
    \/ ReturnFrame
    \/ ListContents
    \/ DownloadFile

SpecEntry == InitEntry /\ [][NextEntry]_vars

----------------------------------------------------------------------------
(* IsOwnerAnOrg and IsOwnerAUser: GetOrg or GetUser, then the reading of   *)
(* what it returned.                                                       *)

\* What GetOrg or GetUser returns after RetryExponentialBackoff.
GetterResult ==
    IF NumErrs(errs) > 0 THEN [result |-> << >>, err |-> ErrAggregated]
    ELSE IF resp.status = StatusNotFound
    THEN [result |-> << >>, err |-> ErrNotFound]
    ELSE [result |-> items, err |-> NoErr]

\* Mutant of IsOrganization: no account counts as an organization.
IsOrganization_never(type) == FALSE

\* user.GetType() == "Organization"
IsOrganization(type) == type = "Organization"

\* IsOwnerAnOrg on what GetOrg returned: (org, is, err).
IsOwnerAnOrg(g) ==
    IF g.err # NoErr
    THEN IF g.err = ErrNotFound
         THEN [result |-> << >>, is |-> FALSE, err |-> NoErr]
         ELSE [result |-> << >>, is |-> FALSE, err |-> g.err]
    ELSE [result |-> g.result, is |-> TRUE, err |-> NoErr]

\* IsOwnerAUser on what GetUser returned: (user, is, err).
IsOwnerAUser(g) ==
    IF g.err # NoErr
    THEN IF g.err = ErrNotFound
         THEN [result |-> << >>, is |-> FALSE, err |-> NoErr]
         ELSE [result |-> << >>, is |-> FALSE, err |-> g.err]
    ELSE IF IsOrganization(ownerType)
    THEN [result |-> g.result, is |-> FALSE, err |-> NoErr]
    ELSE [result |-> g.result, is |-> TRUE, err |-> NoErr]

\* The check returns, after its getter did.
OwnerCheck ==
    /\ pc = "after"
    /\ op \in OwnerChecks
    /\ pc' = "done"
    /\ ret' = IF op = "IsOwnerAnOrg" THEN IsOwnerAnOrg(GetterResult)
              ELSE IsOwnerAUser(GetterResult)
    /\ UNCHANGED <<inputVars, optPage, allRepos, callVars, searchVars, fetched,
                   walkVars>>

InitOwner ==
    /\ op \in OwnerChecks
    /\ ownerType \in {"User", "Organization"}
    /\ invocations = << >>
    /\ pages = << >>
    /\ maxAge = 0
    /\ InitNoSearch
    /\ InitCurrent
    /\ InitNoScan
    /\ args = ValidArgs
    /\ tree = NoTree
    /\ stack = << >>
    /\ werr = NoErr
    /\ events = << >>
    /\ contribCommits = << >>
    /\ InitCall

NextOwner ==
    \/ \E o \in Outcomes : Attempt(o)
    \/ \E o \in Outcomes : Outage(o)
    \/ OwnerCheck

SpecOwner == InitOwner /\ [][NextOwner]_vars

----------------------------------------------------------------------------
(* Two invocations of ListAllReposByLanguage on the same Client, each with *)
(* the locals the function declares: opt, storeIndex, latestStarCount,     *)
(* useStarBound, starLowerBound, allRepos.  A step is one iteration of     *)
(* GetterLoop of one invocation, its request answered with status 200.     *)

\* The locals of an invocation with Limit lim when GetterLoop is entered.
Invocation(lim) ==
    [all |-> << >>, index |-> {}, latest |-> 0, bounded |-> FALSE,
     bound |-> -1, page |-> 1, lim |-> lim, done |-> FALSE]

\* Mutant of IndexOf: the invocations share one index of seen identifiers.
IndexOf_shared(invs, i) == UNION {invs[j].index : j \in DOMAIN invs}

\* "storeIndex := hashsearch.New()": the index invocation i looks up.
IndexOf(invs, i) == invs[i].index

\* One iteration of GetterLoop on the locals q, looking up index.
GetterLoop(q, index) ==
    LET pg == SearchPage(q.bounded, q.bound, q.page)
        st == ScanWith(pg.items, [all |-> q.all, index |-> index,
                                  latest |-> q.latest, stop |-> FALSE], q.lim)
        q2 == [q EXCEPT !.all = st.all,
                        !.index = q.index \cup (st.index \ index),
                        !.latest = st.latest]
    IN IF st.stop \/ (pg.nextPage = 0 /\ EndsAtBound(q.bound))
       THEN [q2 EXCEPT !.done = TRUE]
       ELSE IF pg.nextPage = 0
       THEN [q2 EXCEPT !.latest = NextBound(q.bound, st.latest),
                       !.bounded = TRUE,
                       !.bound = NextBound(q.bound, st.latest),
                       !.page = 1]
       ELSE [q2 EXCEPT !.page = pg.nextPage]

\* Invocation i makes its next iteration.
InvocationStep(i) ==
    /\ pc = "invoked"
    /\ ~invocations[i].done
    /\ invocations' = [invocations EXCEPT
                         ![i] = GetterLoop(@, IndexOf(invocations, i))]
    /\ UNCHANGED <<paramVars, pc, optPage, allRepos, callVars, searchVars,
                   fetched, walkVars, ret>>

InitTwo ==
    /\ op = "ListAllReposByLanguage"
    /\ pc = "invoked"
    /\ dataset \in Datasets
    /\ minStars \in {0, 1}
    /\ limit = 0
    /\ invocations \in [1..2 -> {Invocation(l) : l \in {0, 1, PageSize + 1}}]
    /\ ownerType = "User"
    /\ pages = << >>
    /\ maxAge = 0
    /\ storeIndex = {}
    /\ latestStarCount = 0
    /\ useStarBound = FALSE
    /\ starLowerBound = -1
    /\ restarts = 0
    /\ InitCurrent
    /\ contributors = << >>
    /\ exitingSet = TRUE
    /\ args = ValidArgs
    /\ tree = NoTree
    /\ stack = << >>
    /\ werr = NoErr
    /\ events = << >>
    /\ contribCommits = << >>
    /\ InitLocals

NextTwo == \E i \in 1..2 : InvocationStep(i)

SpecTwo == InitTwo /\ [][NextTwo]_vars

----------------------------------------------------------------------------
(* The two variants of the client, with and without a response observer.  *)

\* The getters and list operations the legacy variant has.
LegacyOps == (Getters \cup Lists) \ {"GetPull", "GetRepo", "ListPulls"}

InitObserver ==
    /\ variant \in {"current", "legacy"}
    /\ observerSet \in BOOLEAN
    /\ op \in IF variant = "legacy" THEN LegacyOps ELSE Getters \cup Lists
    /\ maxAge \in IF op = "ListCommits" THEN {-1, 0, 1} ELSE {0}
    /\ pages \in IF op \in Getters THEN {<< >>}
                 ELSE PageSets(op = "ListCommits" /\ maxAge > 0)
    /\ InitNoSearch
    /\ args = ValidArgs
    /\ tree = NoTree
    /\ stack = << >>
    /\ werr = NoErr
    /\ events = << >>
    /\ contribCommits = << >>
    /\ InitNoScan
    /\ InitNoOwner
    /\ InitCall

SpecObserver == InitObserver /\ [][Next]_vars

\* The legacy search ListReposOnlyBylanguage: its locals start at their zero
\* values ("var starLowerBound int").
InitLegacy ==
    /\ variant = "legacy"
    /\ observerSet = TRUE
    /\ op \in LegacySearches
    /\ pages = << >>
    /\ maxAge = 0
    /\ dataset \in Datasets
    /\ minStars \in {0, 1}
    /\ limit \in {0, MaxLimit}
    /\ storeIndex = {}
    /\ latestStarCount = 0
    /\ useStarBound = FALSE
    /\ starLowerBound = 0
    /\ restarts = 0
    /\ args = ValidArgs
    /\ tree = NoTree
    /\ stack = << >>
    /\ werr = NoErr
    /\ events = << >>
    /\ contribCommits = << >>
    /\ InitNoScan
    /\ InitNoOwner
    /\ InitCall

SpecLegacy == InitLegacy /\ [][NextSearch]_vars


----------------------------------------------------------------------------
(* Properties of the non-search operations (Spec). *)

Range(f) == {f[i] : i \in DOMAIN f}

RECURSIVE Flatten(_)
Flatten(ps) == IF ps = << >> THEN << >> ELSE Head(ps) \o Flatten(Tail(ps))

AllItems == Flatten(pages)

\* Every response that was consumed carried a page (none was a 204).
NoEmptyResponse == 0 \notin Range(fetched)

\* Every page of the endpoint was fetched, in order.
AllPagesFetched == fetched = [p \in 1..Len(pages) |-> p]

Unfiltered == op \in Lists /\ (op = "ListCommits" => maxAge <= 0)

\* C1: pagination completeness. A paginated list operation (ListCommits
\* with maxAge <= 0 included) that has fetched every page of the endpoint
\* returns, without error, exactly the endpoint's items in page order then
\* in-page order; and whenever it returns without error after 200 responses
\* only, the result is that complete sequence.
C1_PaginationComplete ==
    (pc = "done" /\ Unfiltered) =>
        /\ AllPagesFetched => ret = [result |-> AllItems, err |-> NoErr]
        /\ (ret.err = NoErr /\ NoEmptyResponse) => ret.result = AllItems

C1_Witness ==
    /\ pc = "done"
    /\ op = "ListContributors"
    /\ Len(pages) = MaxPages
    /\ AllPagesFetched
    /\ Len(ret.result) >= 3
    /\ attempts = 2

\* Position of the first too-old commit in pagination order (one past the
\* end when there is none).
FirstTooOld ==
    LET old == {i \in 1..Len(AllItems) : AllItems[i].age > maxAge}
    IN IF old = {} THEN Len(AllItems) + 1
       ELSE CHOOSE i \in old : \A j \in old : i <= j

\* C2: early stop. ListCommits with maxAge > 0 that returns without error
\* (after 200 responses only) returns exactly the commits that precede the
\* first too-old commit in pagination order, wherever that commit is.
C2_EarlyStop ==
    (pc = "done" /\ op = "ListCommits" /\ maxAge > 0
        /\ ret.err = NoErr /\ NoEmptyResponse) =>
        ret.result = SubSeq(AllItems, 1, FirstTooOld - 1)

\* the too-old commit in the middle of the second page, a fresh one after it
C2_Witness ==
    /\ pc = "done"
    /\ op = "ListCommits"
    /\ maxAge > 0
    /\ ret.err = NoErr
    /\ Len(pages) = 2
    /\ Len(pages[1]) = 2
    /\ Len(pages[2]) = 2
    /\ FirstTooOld = 3
    /\ AllItems[4].age <= maxAge
    /\ Len(ret.result) = 2

\* C7: rate-limit backoff. An attempt that follows a rate-limited attempt
\* with reported reset time T does not start before T.
C7_RateLimitBackoff == attempts >= 2 => started >= prevReset

\* C8: rate-limited failures do not consume the retry budget: a non-search
\* call never ends in the aggregated retry-exhaustion failure when every
\* failed attempt of it was rate-limited.
C8_RateLimitNotCounted ==
    (pc = "done" /\ op \notin Searches /\ ret.err = ErrAggregated) =>
        rateLimited < NumErrs(errs)

\* C9: not-found sentinel. An operation whose final response has status 404
\* returns ErrNotFound, also when the retry budget was exhausted.
C9_NotFoundSentinel ==
    (pc = "done" /\ resp.status = StatusNotFound) => ret.err = ErrNotFound

\* C38: no use of a missing response. A getter, GetPull included, whose
\* attempts all failed without a response returns the aggregated failure as
\* an error value.
C38_NoMissingResponseUse ==
    (pc = "done" /\ op \in Getters /\ resp = NoResp) =>
        ret.err = ErrAggregated

\* The same of the getters written like GetOrg.
GetOrgLikeNoMissingResponseUse ==
    (pc = "done" /\ op \in Getters \ {"GetPull"} /\ resp = NoResp) =>
        ret.err = ErrAggregated

\* C39: the observer never sees a nil response. In the retried operations
\* and in the listings of the tree walk, the observer has been invoked on
\* the latest attempt only if that attempt produced a response, and never
\* when the attempt returned an error.
C39_ObserverNeverNil ==
    observed = 1 => (resp # NoResp /\ resp.status # 0)

\* A nested listing of the tree walk failed without a response, after the
\* observer was invoked on the root listing's response: it is not invoked.
C39_Witness ==
    /\ op = "WalkFiles"
    /\ Len(events) >= 2
    /\ events[1].kind = "list" /\ events[1].ok
    /\ events[Len(events)].kind = "list" /\ ~events[Len(events)].ok
    /\ resp = NoResp
    /\ observed = 0

\* The same in a retried operation: an attempt failed without a response
\* and the observer was not invoked.
ClosureNotObserved ==
    /\ op \in Getters \cup Lists
    /\ attempts > 0
    /\ resp = NoResp
    /\ observed = 0

\* C20: the observer fires on every attempt. Every attempt that produced a
\* response has had the observer invoked on it exactly once, whether the
\* attempt counted as a success or as a failure.
C20_ObserverEveryAttempt ==
    (attempts > 0 /\ resp # NoResp) => observed = 1

----------------------------------------------------------------------------
(* Properties of ListAllReposByLanguage (SpecSearch). *)

Ids(rs) == {rs[i].id : i \in DOMAIN rs}

Matching == {i \in 1..Len(dataset) : dataset[i] >= minStars}

\* No star count is shared by more matching repositories than one result
\* window holds.
TiesFitWindow ==
    \A s \in 0..MaxStars :
        Cardinality({i \in 1..Len(dataset) : dataset[i] = s}) <= Window

CompleteRun ==
    pc = "done" /\ op \in Searches /\ limit = 0 /\ ret.err = NoErr
        /\ NoEmptyResponse

\* C3 as stated: with Limit = 0 every matching repository with star count
\* >= MinStars is returned, for every finite dataset.
C3_Completeness == CompleteRun => Matching \subseteq Ids(ret.result)

\* C3 amended: with Limit = 0 every matching repository with star count
\* >= MinStars is returned, for every finite dataset in which no star count
\* is shared by more repositories than one result window holds.
C3_CompletenessTiesFit ==
    (CompleteRun /\ TiesFitWindow) => Matching \subseteq Ids(ret.result)

\* more matches than one window, restarts needed, ties within the window
C3_Witness ==
    /\ CompleteRun
    /\ TiesFitWindow
    /\ Len(dataset) > Window
    /\ minStars = 0
    /\ dataset[Window] = dataset[Window + 1]
    /\ Len(ret.result) = Len(dataset)

NoDuplicates(rs) == \A i, j \in DOMAIN rs : rs[i].id = rs[j].id => i = j

\* C4: dedup invariant. At every point of the search the accumulated result
\* holds no repository twice, the SeenIndex is exactly the set of names in
\* the accumulated result, and the SeenIndex never loses an element.
C4_Dedup ==
    /\ [](NoDuplicates(allRepos) /\ storeIndex = Ids(allRepos))
    /\ [][storeIndex \subseteq storeIndex']_vars

\* a restart window overlapped an earlier one
C4_Witness ==
    /\ restarts >= 1
    /\ pc = "after"
    /\ resp.status = StatusOK
    /\ Ids(items) \cap storeIndex # {}
    /\ Ids(items) \ storeIndex # {}

\* C5: ordering. The accumulated (and returned) sequence has non-increasing
\* star counts, across all window restarts.
C5_Ordering ==
    /\ \A i, j \in DOMAIN allRepos : i < j => allRepos[i].stars >= allRepos[j].stars
    /\ \A i, j \in DOMAIN ret.result :
          i < j => ret.result[i].stars >= ret.result[j].stars

C5_Witness ==
    /\ pc = "done"
    /\ restarts >= 2
    /\ Len(ret.result) > Window
    /\ ret.result[1].stars > ret.result[Len(ret.result)].stars

\* A rank of the search's state: the bound still to descend, then the pages
\* left in the window, then the attempts left in the logical call.
CallRank ==
    IF pc = "done" THEN 0
    ELSE IF pc = "after" THEN 1
    ELSE 2 + (Budget(op) - attempts)

BoundRank == IF useStarBound THEN starLowerBound + 1 ELSE MaxStars + 2

Rank ==
    (BoundRank * (WindowPages + 1) + (WindowPages - CurPage))
        * (SearchRetries + 3) + CallRank

\* The search is at a point from which it takes a step: an attempt within
\* the budget, or the loop body after RetryExponentialBackoff returned.
Running == pc = "after" \/ (pc = "retry" /\ attempts < Budget(op))

\* Running states have a step (checked as an invariant of SpecSearch).
RunningIsEnabled == Running => ENABLED NextSearch

\* C6: termination. Every step of the search lowers a non-negative rank, so
\* it cannot restart forever; until the search has returned it is at a
\* point from which it takes a step; and once the bound is in use it is
\* never below 0.
C6_Termination ==
    /\ [][Rank' < Rank]_vars
    /\ [](Rank >= 0 /\ CurPage <= WindowPages)
    /\ [](pc # "done" => Running)
    /\ [](useStarBound => starLowerBound >= 0)

C6_Witness ==
    /\ pc = "done"
    /\ restarts >= MaxStars + 1
    /\ starLowerBound = 0
    /\ minStars > 0
    /\ ret.err = NoErr

\* The result of the same search with Limit = 0.
Unlimited == SearchRun(0, SearchStart)

\* C18: Limit returns a prefix. With Limit = L > 0 the search returns the
\* first min(L, n) elements of the n-element result the same dataset and
\* MinStars give with Limit = 0, and once L items are accepted it has
\* returned: no further request is issued.
C18_LimitPrefix ==
    /\ (pc = "done" /\ op \in Searches /\ limit > 0 /\ ret.err = NoErr
           /\ NoEmptyResponse) =>
          ret.result = SubSeq(Unlimited, 1, Min(limit, Len(Unlimited)))
    /\ (op \in Searches /\ limit > 0 /\ Len(allRepos) >= limit) => pc = "done"

\* the limit is reached in a restart window
C18_Witness ==
    /\ pc = "done"
    /\ op \in Searches
    /\ limit > 0
    /\ ret.err = NoErr
    /\ NoEmptyResponse
    /\ restarts >= 1
    /\ Len(ret.result) = limit
    /\ Len(ret.result) > Window

----------------------------------------------------------------------------
(* Properties of every paginated operation (SpecAll). *)

\* C10: no partial result on failure. A list or search operation that
\* returns an error returns a nil result with it, whatever it accumulated.
C10_NoPartialResult ==
    (pc = "done" /\ op \in Lists \cup Searches /\ ret.err # NoErr) =>
        ret.result = << >>

\* a restart query of the search fails after items were accumulated
C10_Witness ==
    /\ pc = "done"
    /\ op \in Searches
    /\ restarts >= 1
    /\ allRepos # << >>
    /\ ret.err = ErrAggregated
    /\ ret.result = << >>

----------------------------------------------------------------------------
(* Properties of WalkFiles (SpecWalk). *)

\* Node v lies in the subtree of directory d.
RECURSIVE IsUnder(_, _)
IsUnder(v, d) ==
    tree.parent[v] = d \/ (tree.parent[v] # 0 /\ IsUnder(tree.parent[v], d))

Visits(v) == {i \in DOMAIN events : events[i].kind = "visit" /\ events[i].node = v}
Listings(d) == {i \in DOMAIN events : events[i].kind = "list" /\ events[i].node = d}

\* The nodes the visitor was invoked on, in order.
VisitOrder ==
    LET vs == SelectSeq(events, LAMBDA e : e.kind = "visit")
    IN [i \in DOMAIN vs |-> vs[i].node]

\* C11: post-order for directories. At every point of a WalkFiles run, a
\* directory node the visitor was invoked on has had every node of its
\* subtree visited before; and the nodes of one listing are processed in
\* listing order: before a node is listed or visited, or anything in its
\* subtree is, every earlier sibling of it has been visited.
C11_PostOrder ==
    /\ \A d \in Nodes : \A i \in Visits(d) :
          tree.isDir[d] =>
             \A v \in Nodes : IsUnder(v, d) => \E j \in Visits(v) : j < i
    /\ \A u, v \in Nodes :
          (u < v /\ tree.parent[u] = tree.parent[v]) =>
             \A j \in DOMAIN events :
                (events[j].node = v \/ (events[j].node # 0 /\ IsUnder(events[j].node, v)))
                   => \E i \in Visits(u) : i < j

\* a directory two levels deep, with a file after it, walked to the end
C11_Witness ==
    /\ pc = "done"
    /\ ret.err = NoErr
    /\ \E d, v, w \in Nodes :
          /\ tree.parent[d] = 0 /\ tree.isDir[d]
          /\ IsUnder(v, d) /\ tree.parent[v] # d
          /\ tree.parent[w] = 0 /\ ~tree.isDir[w] /\ w > d
          /\ Visits(d) # {} /\ Visits(v) # {} /\ Visits(w) # {}

\* root/{a.txt, sub/{b.txt}}: node 1 is a.txt, node 2 is sub, node 3 is b.txt.
ExampleTree == [parent |-> <<0, 0, 2>>, isDir |-> <<FALSE, TRUE, FALSE>>]

\* C12 as stated: for root/{a.txt, sub/{b.txt}}, listed in that order, the
\* visitor is invoked exactly in the order [b.txt, sub, a.txt].
C12_ExampleOrder ==
    (pc = "done" /\ tree = ExampleTree /\ ret.err = NoErr) =>
        VisitOrder = <<3, 2, 1>>

\* C12 amended: for root/{a.txt, sub/{b.txt}}, listed in that order, the
\* visitor is invoked exactly in the order [a.txt, b.txt, sub].
C12_ExampleOrderListing ==
    (pc = "done" /\ tree = ExampleTree /\ ret.err = NoErr) =>
        VisitOrder = <<1, 3, 2>>

C12_Witness ==
    /\ pc = "done"
    /\ tree = ExampleTree
    /\ ret.err = NoErr
    /\ Len(VisitOrder) = 3
    /\ Listings(2) # {}

FailedVisit(e) == e.kind = "visit" /\ ~e.ok
FailedListing(e) == e.kind = "list" /\ ~e.ok

\* C13: visitor abort. A visitor call that reports failure is the last
\* visitor call and the last listing request of the run, at any depth, and
\* WalkFiles returns that failure.
C13_VisitorAbort ==
    /\ \A i \in DOMAIN events : FailedVisit(events[i]) => i = Len(events)
    /\ (pc = "done" /\ events # << >> /\ FailedVisit(events[Len(events)]))
          => ret.err = ErrVisitor

\* the visitor fails on a nested node that has a later sibling
C13_Witness ==
    /\ pc = "done"
    /\ ret.err = ErrVisitor
    /\ \E v, u \in Nodes :
          /\ tree.parent[v] # 0
          /\ tree.parent[u] = tree.parent[v]
          /\ u > v
          /\ events[Len(events)] = VisitEvent(v, FALSE)

ListingErrors == {o.err : o \in ListOutcomes} \ {NoErr}

\* C14: listing failure propagation. A listing that fails, of the start
\* path or of a nested directory, is the last event of the run, and
\* WalkFiles returns that failure as its error value.
C14_ListingFailureReturned ==
    /\ \A i \in DOMAIN events : FailedListing(events[i]) => i = Len(events)
    /\ (pc = "done" /\ events # << >> /\ FailedListing(events[Len(events)]))
          => ret.err \in ListingErrors

\* C15: listings go through the executor policy. WalkFiles returns a
\* listing failure only after the listing of that directory was attempted
\* as often as the retry budget allows.
C15_ListingRetried ==
    (pc = "done" /\ ret.err \in ListingErrors) =>
        Cardinality(Listings(events[Len(events)].node)) >= ListRetries

----------------------------------------------------------------------------
(* Properties of isShadowMember (SpecShadow). *)

Classified == pc = "done" /\ op = "isShadowMember"

\* C16: shadow classification. isShadowMember is true if and only if at
\* least one commit of the list has author login equal to committer login,
\* wherever in the list it is; so it is false for the empty list and for
\* [(X,Y)] and true for [(X,Y),(X,X)].
C16_ShadowIffDirect ==
    Classified =>
        ret.result = (\E i \in DOMAIN contribCommits :
                        contribCommits[i].author = contribCommits[i].committer)

C16_Witness ==
    /\ Classified
    /\ contribCommits = <<[author |-> "X", committer |-> "X"],
                          [author |-> "X", committer |-> "Y"]>>
    /\ ret.result = TRUE

WebMerged(c) == c.committer = WebFlow
Moderated(c) == c.author # c.committer

\* C17 as stated: a contributor whose every commit is web-merged (committer
\* login "web-flow", whatever the author login is) or moderated is not
\* classified as shadow member.
C17_WebMergedNotShadow ==
    (Classified /\ \A i \in DOMAIN contribCommits :
                      WebMerged(contribCommits[i]) \/ Moderated(contribCommits[i]))
        => ret.result = FALSE

\* C17 amended: a contributor whose every commit is moderated (author login
\* differs from committer login), web-merged ones with an author other than
\* the merge-bot identity included, is not classified as shadow member.
C17_ModeratedNotShadow ==
    (Classified /\ \A i \in DOMAIN contribCommits : Moderated(contribCommits[i]))
        => ret.result = FALSE

C17_Witness ==
    /\ Classified
    /\ contribCommits = <<[author |-> "X", committer |-> WebFlow],
                          [author |-> "X", committer |-> "Y"]>>
    /\ ret.result = FALSE

----------------------------------------------------------------------------
(* Properties of the operations with required parameters (SpecEntry). *)

\* The operation was called without a required parameter.
Misused ==
    \/ /\ op \in {"SearchRepos", "SearchCode", "ListAllReposByLanguage"}
       /\ args.optsNil \/ args.query = ""
    \/ /\ op = "SearchReposWithCallback"
       /\ args.query = ""
    \/ /\ op \in {"WalkFiles", "ListContents", "DownloadFile"}
       /\ args.owner = "" \/ args.repo = ""

\* No request was issued, and neither the observer nor a callback invoked.
Untouched ==
    /\ attempts = 0
    /\ resp = NoResp
    /\ observed = 0
    /\ events = << >>
    /\ fetched = << >>

\* C19: client misuse fails immediately. An operation called without a
\* required parameter never issues a request, never retries and never
\* invokes the observer or a callback: its only step is the return of an
\* error.
C19_MisuseFailsAtOnce ==
    Misused =>
        /\ Untouched
        /\ pc \in {"call", "done"}
        /\ pc = "done" => (ret.err = ErrMisuse /\ ret.result = << >>)

C19_Witness ==
    /\ pc = "done"
    /\ op = "SearchRepos"
    /\ args.optsNil
    /\ ret.err = ErrMisuse
    /\ dataset # << >>

----------------------------------------------------------------------------
(* Properties of the retried request (Spec, SpecAll). *)

\* This step makes attempts of the current logical call.
Attempting == attempts' > attempts

\* The latest attempt got a response and no error from the platform API
\* client: the closure went past "if err != nil" and called the observer.
NoClientError == observed = 1

\* A step that classifies the attempt it makes as C28 says.
StatusClassified ==
    Attempting =>
        /\ (resp'.status \in {StatusOK, StatusNotFound, StatusNoContent}
              /\ NoClientError') =>
                (pc' = "after" /\ errs' = NoErrs /\ attempts' = attempts + 1)
        /\ resp'.status \notin {StatusOK, StatusNotFound, StatusNoContent} =>
              /\ NumErrs(errs') > NumErrs(errs)
              /\ attempts' < ListRetries => pc' = "retry"

\* C28: an attempt answered with status 200, 404 or 204 and no error ends
\* the logical call as a success, with no further attempt; an attempt
\* answered with another status, or with no response at all, counts as a
\* failure and the call goes on to another attempt while its budget is not
\* used up.
C28_StatusClassification == [][StatusClassified]_vars

\* A 404 without an error ended a logical call at its second attempt.
C28_Witness ==
    /\ pc = "after"
    /\ attempts = 2
    /\ resp.status = StatusNotFound
    /\ NoClientError
    /\ errs = NoErrs

\* The attempts a logical call of the operation may make.
Allowed == IF op \in Searches THEN SearchRetries ELSE ListRetries

\* C29: a logical call makes at most 5 attempts (9999 in a search); when
\* RetryExponentialBackoff has returned, either the latest attempt was the
\* first success and every attempt before it failed, or no attempt
\* succeeded, the attempts made are exactly the budget, each left an error,
\* and the operation returns a failure.
C29_BoundedAttempts ==
    /\ attempts <= Allowed
    /\ pc = "after" =>
          IF errs = NoErrs
          THEN attempts = failures + 1 /\ TerminalStatus(resp.status)
          ELSE attempts = Allowed /\ NumErrs(errs) = Allowed
    /\ (pc = "done" /\ errs # NoErrs) =>
          (attempts = Allowed /\ ret.err # NoErr /\ ret.result = << >>)

\* A search call used up its budget and the search returned the aggregated
\* failure.
C29_Witness ==
    /\ op \in Searches
    /\ pc = "done"
    /\ attempts = SearchRetries
    /\ ret.err = ErrAggregated

\* What a list operation returns in a run with no failed attempt.
NoFailureResult ==
    IF Unfiltered THEN AllItems ELSE SubSeq(AllItems, 1, FirstTooOld - 1)

\* A step of a list operation that treats failed attempts as C30 says.
RetriesKeepPagination ==
    op \in Lists =>
        /\ (Attempting /\ errs' # NoErrs) =>
              (optPage' = optPage /\ allRepos' = allRepos /\ fetched' = fetched)
        /\ (pc' = "done" /\ ret'.err = NoErr /\ 0 \notin Range(fetched')) =>
              /\ ret'.result = NoFailureResult
              /\ \A i, j \in DOMAIN ret'.result :
                    ret'.result[i] = ret'.result[j] => i = j

\* C30: a failed attempt leaves the cursor and the accumulated items as they
\* were, and a list operation that returns without error returns what a run
\* with no failed attempt returns, each item once.
C30_RetriesKeepPagination == [][RetriesKeepPagination]_vars

\* The second page of a list needed two attempts.
C30_Witness ==
    /\ op \in Lists
    /\ pc = "done"
    /\ ret.err = NoErr
    /\ fetched = <<1, 2>>
    /\ attempts = 2
    /\ Len(pages[1]) > 0
    /\ Len(pages[2]) > 0
    /\ ret.result = AllItems

----------------------------------------------------------------------------
(* Properties of the early stop of ListCommits (Spec). *)

\* The page holds a commit older than maxAge.
HasTooOld(page) == \E i \in DOMAIN page : page[i].age > maxAge

\* C31: in ListCommits with maxAge > 0, the page with the first too-old
\* commit is the last page handled: the operation has returned, without
\* error, and no page was requested after it, whatever next cursor the page
\* reported; no commit located at or after the too-old one is accumulated
\* or returned, however recent it is.
C31_EarlyStopImmediate ==
    (op = "ListCommits" /\ maxAge > 0) =>
        /\ \A k \in DOMAIN fetched :
              (fetched[k] # 0 /\ HasTooOld(pages[fetched[k]])) =>
                  (k = Len(fetched) /\ pc = "done" /\ ret.err = NoErr)
        /\ \A i \in DOMAIN allRepos : allRepos[i].id < FirstTooOld
        /\ \A i \in DOMAIN ret.result : ret.result[i].id < FirstTooOld

\* ListCommits stopped at a first page that reported a next cursor and held
\* a recent commit after the too-old one.
C31_Witness ==
    /\ op = "ListCommits"
    /\ maxAge > 0
    /\ pc = "done"
    /\ ret.err = NoErr
    /\ fetched = <<1>>
    /\ resp.nextPage # 0
    /\ Len(items) = 2
    /\ items[1].age > maxAge
    /\ items[2].age <= maxAge

----------------------------------------------------------------------------
(* Properties of a tree walk without failures (SpecWalk). *)

\* No listing failed and the visitor reported no failure so far.
NoWalkFailure == \A j \in DOMAIN events : events[j].ok

\* The directories of the walk: the start path and the directory nodes.
Directories == {0} \cup {v \in Nodes : tree.isDir[v]}

\* C32: in a walk in which no listing fails and the visitor never reports
\* failure, no node is visited twice, no directory is listed twice and
\* nothing but a directory is listed; the walk is never stuck; and when it
\* has returned, it returned no error, every node below the start path was
\* visited exactly once and every directory was listed exactly once.
C32_VisitExactlyOnce ==
    (op = "WalkFiles" /\ ValidParams(args) /\ NoWalkFailure) =>
        /\ \A j \in DOMAIN events :
              /\ events[j].kind = "visit" => events[j].node \in Nodes
              /\ events[j].kind = "list" => events[j].node \in Directories
        /\ \A v \in Nodes : Cardinality(Visits(v)) <= 1
        /\ \A d \in Directories : Cardinality(Listings(d)) <= 1
        /\ pc = "walk" => stack # << >>
        /\ pc = "done" =>
              /\ ret.err = NoErr
              /\ \A v \in Nodes : Cardinality(Visits(v)) = 1
              /\ \A d \in Directories : Cardinality(Listings(d)) = 1

\* A walk over a tree with a directory inside a directory returned.
C32_Witness ==
    /\ op = "WalkFiles"
    /\ pc = "done"
    /\ NoWalkFailure
    /\ ret.err = NoErr
    /\ Len(tree.parent) = MaxNodes
    /\ \E v, w \in Nodes : tree.isDir[v] /\ tree.isDir[w] /\ tree.parent[w] = v
    /\ \E v \in Nodes : ~tree.isDir[v]

----------------------------------------------------------------------------
(* Properties of the restarts of ListAllReposByLanguage (SpecSearch). *)

\* GetterLoop decides to restart the query at this step.
Restarting ==
    /\ op \in Searches
    /\ pc = "after"
    /\ pc' = "retry"
    /\ resp.nextPage = 0

\* The star count of the last accepted item (none: the bound given).
LastAccepted(all, bound) ==
    IF all = << >> THEN bound ELSE all[Len(all)].stars

\* A step that leaves a set bound as C23 says.
BoundDecreases ==
    (op \in Searches /\ useStarBound) =>
        /\ starLowerBound' <= starLowerBound
        /\ Restarting =>
              LET last == LastAccepted(allRepos', starLowerBound) IN
              /\ starLowerBound' < starLowerBound
              /\ starLowerBound' >= 0
              /\ starLowerBound' = IF last < starLowerBound THEN last
                                    ELSE starLowerBound - 1

\* C23: the star bound never increases once it is set, and every later
\* restart sets it to a strictly smaller value that is not below 0: the star
\* count of the last accepted item when that is lower than the previous
\* bound, otherwise the previous bound minus one.
C23_BoundDecreases == [][BoundDecreases]_vars

\* The second restart has just set the bound to the star count of the last
\* accepted item (a decrement leaves the bound below that count).
C23_Witness ==
    /\ op \in Searches
    /\ pc = "retry" /\ attempts = 0
    /\ restarts = 2
    /\ allRepos # << >>
    /\ starLowerBound = LastAccepted(allRepos, starLowerBound)
    /\ NoEmptyResponse

\* C24: when the matching items are fewer than the result window and every
\* response carried a page, no restart query is issued.
C24_NoRestartWhenComplete ==
    (op \in Searches /\ Len(dataset) < Window /\ NoEmptyResponse)
    => ~(restarts > 0 /\ attempts > 0)

\* A restart query was answered with an empty page: status 200, no items,
\* next cursor 0.
EmptyRestartPage ==
    /\ op \in Searches
    /\ pc = "after"
    /\ restarts > 0
    /\ CurPage = 1
    /\ errs = NoErrs
    /\ resp.status = StatusOK
    /\ items = << >>
    /\ resp.nextPage = 0

\* C25: when a restart query is answered with an empty page, the search
\* returns the accumulated result without another restart.
C25_EmptyRestartEnds ==
    [][EmptyRestartPage =>
         (pc' = "done" /\ ret' = [result |-> allRepos, err |-> NoErr])]_vars

\* A page of the search arrived with an item below the floor.
BelowFloorFetched ==
    /\ op \in Searches
    /\ pc = "after"
    /\ errs = NoErrs
    /\ resp.status = StatusOK
    /\ \E i \in DOMAIN items : items[i].stars < minStars

\* A step that respects the floor as C27 says.
FloorShortCircuit ==
    op \in Searches =>
        /\ \A i \in DOMAIN allRepos' : allRepos'[i].stars >= minStars
        /\ BelowFloorFetched =>
              /\ pc' = "done"
              /\ ret'.err = NoErr
              /\ \A i \in DOMAIN ret'.result :
                    ret'.result[i].stars >= minStars

\* C27: no accepted repository has fewer stars than MinStars, and the step
\* that meets a fetched item below MinStars returns: no further page and no
\* restart is requested, and every returned repository has at least
\* MinStars stars.
C27_FloorShortCircuit == [][FloorShortCircuit]_vars

\* A search ended at an item below the floor, after accepting others.
C27_Witness ==
    /\ op \in Searches
    /\ pc = "done"
    /\ ret.err = NoErr
    /\ ret.result # << >>
    /\ resp.status = StatusOK
    /\ \E i \in DOMAIN items : items[i].stars < minStars
    /\ \E i \in DOMAIN items : items[i].stars >= minStars

----------------------------------------------------------------------------
(* Properties of the two variants (SpecObserver, SpecLegacy). *)

\* C21: the response observer is optional: with no observer set, no
\* operation of either variant crashes on a response it received.
C21_ObserverOptional ==
    (pc = "done" /\ ~observerSet /\ resp # NoResp) => ret.err # ErrPanic

\* C26: in the legacy search with MinStars = 0 and Limit = 0, when every
\* request is answered with status 200, the star bound never becomes
\* negative.
C26_LegacyBoundNonNegative ==
    (op \in LegacySearches /\ minStars = 0 /\ limit = 0 /\ NoEmptyResponse
        /\ rateLimited = 0)
    => starLowerBound >= 0

----------------------------------------------------------------------------
(* Properties of FindShadowMembersByContributions (SpecScan). *)

Polls(i) ==
    {j \in DOMAIN events : events[j].kind = "poll" /\ events[j].node = i}

\* C22: the cancellation predicate is consulted at most once per
\* contributor; a contributor's commits are requested only right after the
\* predicate was consulted for that contributor and answered false; once it
\* answers true no further request is issued and the scan returns what it
\* has found, without an error.
C22_CancellationPolled ==
    (op = "FindShadowMembersByContributions" /\ exitingSet) =>
        /\ \A i \in 1..Len(contributors) : Cardinality(Polls(i)) <= 1
        /\ \A j \in DOMAIN events :
              /\ events[j].kind = "commits" =>
                    /\ j > 1
                    /\ events[j - 1] = PollEvent(events[j].node, FALSE)
              /\ (events[j].kind = "poll" /\ events[j].ok) =>
                    /\ j = Len(events)
                    /\ pc = "done"
                    /\ ret = [result |-> allRepos, err |-> NoErr]

\* The scan was cancelled at its second contributor or later.
C22_Witness ==
    /\ pc = "done"
    /\ exitingSet
    /\ \E j \in DOMAIN events :
          /\ events[j].kind = "poll" /\ events[j].ok
          /\ events[j].node >= 2
          /\ allRepos # << >>

\* The contributors with a direct commit among their commits, in listing
\* order.
DirectContributors ==
    SelectSeq([i \in 1..Len(contributors) |-> i],
              LAMBDA i : \E k \in DOMAIN contributors[i] :
                            contributors[i][k].author = contributors[i][k].committer)

\* C33: every return of FindShadowMembersByContributions without an error
\* yields exactly the contributors with a direct commit, over all
\* contributors of the repository, in listing order.
C33_ScanComplete ==
    (op = "FindShadowMembersByContributions" /\ pc = "done" /\ ret.err = NoErr)
    => ret.result = DirectContributors

----------------------------------------------------------------------------
(* Properties of the searches by query (SpecEntry). *)

\* The items the endpoint serves on page p of a query (none for a response
\* without content, p = 0).
QueryPage(p) == IF p = 0 THEN << >> ELSE SearchPage(FALSE, 0, p).items

\* C34: SearchReposWithCallback has invoked the callback once for every
\* response fetched so far, in the order of the pages, with the items of
\* that page; the pages follow one another from page 1; an answer false is
\* the last event, after which the operation has returned nil; and when the
\* operation returns nil after answers true only, the last page reported
\* next cursor 0.
C34_CallbackPerPage ==
    op = "SearchReposWithCallback" =>
        /\ Len(events) = Len(fetched)
        /\ \A j \in DOMAIN events :
              /\ events[j].kind = "callback"
              /\ events[j].page = QueryPage(fetched[j])
              /\ fetched[j] # 0 => (events[j].node = fetched[j] /\ fetched[j] = j)
              /\ ~events[j].ok =>
                    (j = Len(events) /\ pc = "done" /\ ret.err = NoErr)
        /\ (pc = "done" /\ ret.err = NoErr
              /\ \A j \in DOMAIN events : events[j].ok) =>
                (events # << >> /\ resp.nextPage = 0)

\* The callback answered false on the first of two pages.
C34_Witness ==
    /\ op = "SearchReposWithCallback"
    /\ pc = "done"
    /\ ret.err = NoErr
    /\ Len(events) = 1
    /\ ~events[1].ok
    /\ Len(events[1].page) = PageSize
    /\ resp.nextPage # 0

\* The items of the pages fetched so far, in page order.
RECURSIVE FetchedItems(_)
FetchedItems(k) ==
    IF k = 0 THEN << >> ELSE FetchedItems(k - 1) \o QueryPage(fetched[k])

\* The items of rs with at least MinStars stars, cut to the first Limit
\* when Limit > 0.
Kept(rs) ==
    LET f == SelectSeq(rs, LAMBDA r : r.stars >= minStars)
    IN IF limit > 0 /\ Len(f) > limit THEN SubSeq(f, 1, limit) ELSE f

\* C35: SearchRepos holds exactly the items of the fetched pages with at
\* least MinStars stars, in page order, cut to the first Limit items when
\* Limit > 0, and returns them; it has returned once it holds Limit items;
\* and an item below MinStars does not end the search: before the Limit is
\* reached, only a page with next cursor 0 ends it.
C35_FilterAndLimit ==
    (op = "SearchRepos" /\ ~Misused) =>
        /\ allRepos = Kept(FetchedItems(Len(fetched)))
        /\ (limit > 0 /\ Len(allRepos) >= limit) =>
              (Len(allRepos) = limit /\ pc = "done")
        /\ (pc = "done" /\ ret.err = NoErr) =>
              /\ ret.result = allRepos
              /\ (limit = 0 \/ Len(allRepos) < limit) => resp.nextPage = 0

\* SearchRepos skipped an item on the first page and reached its Limit on
\* the second page, before the last item of that page.
C35_Witness ==
    /\ op = "SearchRepos"
    /\ pc = "done"
    /\ ret.err = NoErr
    /\ fetched = <<1, 2>>
    /\ \E i \in DOMAIN QueryPage(1) : QueryPage(1)[i].stars < minStars
    /\ limit > 0
    /\ Len(ret.result) = limit
    /\ Len(QueryPage(2)) = PageSize
    /\ ret.result[limit] = QueryPage(2)[1]
    /\ QueryPage(2)[PageSize].stars >= minStars

----------------------------------------------------------------------------
(* Properties of IsOwnerAnOrg and IsOwnerAUser (SpecOwner). *)

\* C36: a check whose getter ended at a 404 without error (ErrNotFound)
\* returns (nil, false, nil); a check whose getter failed otherwise returns
\* (nil, false, that error); a check whose getter found the account returns
\* the account, with false from IsOwnerAUser when its type is Organization
\* and true in every other case.
C36_AbsenceVersusError ==
    (op \in OwnerChecks /\ pc = "done") =>
        IF errs # NoErrs
        THEN ret = [result |-> << >>, is |-> FALSE, err |-> ErrAggregated]
        ELSE IF resp.status = StatusNotFound
        THEN ret = [result |-> << >>, is |-> FALSE, err |-> NoErr]
        ELSE /\ ret.err = NoErr
             /\ ret.result = items
             /\ ret.is = ~(op = "IsOwnerAUser" /\ ownerType = "Organization")

\* IsOwnerAUser found an organization account.
C36_Witness ==
    /\ op = "IsOwnerAUser"
    /\ pc = "done"
    /\ ownerType = "Organization"
    /\ resp.status = StatusOK
    /\ ret = [result |-> <<TheObject>>, is |-> FALSE, err |-> NoErr]

----------------------------------------------------------------------------
(* Properties of two invocations on one Client (SpecTwo). *)

\* C37: in every interleaving of two invocations of ListAllReposByLanguage,
\* each invocation accumulates only identifiers of its own index, each once,
\* and an invocation that has returned has returned what it returns when
\* run alone.
C37_InvocationIsolation ==
    \A i \in DOMAIN invocations :
        /\ Ids(invocations[i].all) = invocations[i].index
        /\ NoDuplicates(invocations[i].all)
        /\ invocations[i].done =>
              invocations[i].all = SearchRun(invocations[i].lim, SearchStart)

\* Both invocations have returned, the first after a restart, and the
\* second, with a Limit, returned fewer items.
C37_Witness ==
    /\ DOMAIN invocations = 1..2
    /\ invocations[1].done /\ invocations[2].done
    /\ invocations[1].bounded
    /\ Len(invocations[1].all) > Window
    /\ invocations[2].lim > 0
    /\ Len(invocations[2].all) = invocations[2].lim

====
